---- MODULE Spec2Model ----
(***************************************************************************)
(* openweathermap-exporter: the report thread (poller), the shared         *)
(* RwLock<MaybeReport> and the two warp handlers (/json, /metrics) that     *)
(* read it, modelled from src/src/main.rs.                                  *)
(*                                                                          *)
(* Option<T> is modelled as a sequence of length 0 (None) or 1 (Some(x)).   *)
(* f32 values are modelled by integers.                                     *)
(***************************************************************************)
EXTENDS Integers, Sequences, FiniteSets, TLC

\* ------------------------------------------------------------------ bounds
\* number of poll attempts whose fetch the model lets return
MaxAttempts == 2

\* ------------------------------------------------------------ Option<T>
None == << >>
Some(x) == << x >>
IsSome(o) == Len(o) = 1
Unwrap(o) == o[1]

\* ------------------------------------------------------------------ Units
UnitsValues == {"Kelvin", "Imperial", "Metric"}

\* (a variant that names the default unit system in the request as well)
api_param_always(u) ==
  CASE u = "Kelvin" -> Some("standard")
    [] u = "Metric" -> Some("metric")
    [] u = "Imperial" -> Some("imperial")

api_param(u) ==
  CASE u = "Kelvin" -> None
    [] u = "Metric" -> Some("metric")
    [] u = "Imperial" -> Some("imperial")

units_pressure(u) == "hPa"

units_temp(u) ==
  CASE u = "Kelvin" -> "k"
    [] u = "Metric" -> "c"
    [] u = "Imperial" -> "f"

units_speed(u) ==
  CASE u \in {"Kelvin", "Metric"} -> "m/s"
    [] u = "Imperial" -> "mph"

\* ---------------------------------------------------------------- Options
\* the configurations the model starts from (units, location label)
Locations == {None, Some("home")}

OptionsValues ==
  [units : UnitsValues, location : Locations,
   coords : {[lat |-> 51, lon |-> 0]}, api_key : {"key"}]

\* the configuration the concurrent specifications start from
StartOptions ==
  {o \in OptionsValues : o.units = "Imperial" /\ o.location = Some("home")}

\* ----------------------------------------------------------------- Report
ReportA ==
  [coord |-> [lat |-> 51, lon |-> 0],
   weather |-> << [id |-> 804, main |-> "Clouds",
                   description |-> "overcast clouds", icon |-> "04d"] >>,
   main |-> [temp |-> 10, feels_like |-> 9, temp_min |-> 8, temp_max |-> 11,
             pressure |-> 1012, humidity |-> 80],
   wind |-> [speed |-> 3, deg |-> 180],
   rain |-> [volume_1h |-> None, volume_3h |-> None],
   snow |-> [volume_1h |-> None, volume_3h |-> None],
   clouds |-> [all |-> 90],
   visibility |-> None]

ReportB ==
  [coord |-> [lat |-> 51, lon |-> 0],
   weather |-> << [id |-> 500, main |-> "Rain",
                   description |-> "light rain", icon |-> "10d"],
                  [id |-> 701, main |-> "Mist",
                   description |-> "mist", icon |-> "50d"] >>,
   main |-> [temp |-> 7, feels_like |-> 5, temp_min |-> 6, temp_max |-> 8,
             pressure |-> 1001, humidity |-> 93],
   wind |-> [speed |-> 5, deg |-> 270],
   rain |-> [volume_1h |-> Some(2), volume_3h |-> None],
   snow |-> [volume_1h |-> None, volume_3h |-> None],
   clouds |-> [all |-> 100],
   visibility |-> Some(6000)]

Reports == {ReportA, ReportB}

\* ------------------------------------------------------------ MaybeReport
MaybeReport_Ok(r) == [tag |-> "Ok", report |-> r]
MaybeReport_Err(code) == [tag |-> "Err", code |-> code]
MaybeReport_None == [tag |-> "None"]

\* ------------------------------------------------- the provider's answers
\* What one outbound GET can come back with: no response at all (sent =
\* FALSE), or a response with a status whose body does or does not
\* deserialize into a Report. Where there is no Report the report field is a
\* placeholder that nothing reads.
Statuses == {200, 304, 503}

Transports ==
  {[sent |-> FALSE, status |-> 0, parses |-> FALSE, report |-> ReportA]}
  \cup [sent : {TRUE}, status : Statuses, parses : {FALSE}, report : {ReportA}]
  \cup [sent : {TRUE}, status : {200, 304}, parses : {TRUE}, report : {ReportB}]

\* Result<T, reqwest::Error>: an error keeps the status() it would report
Result_Ok(v) == [ok |-> TRUE, value |-> v]
Result_Err(status) == [ok |-> FALSE, status |-> status]

\* .send(): a transport failure is an error without a status
send(t) == IF t.sent THEN Result_Ok(t) ELSE Result_Err(None)

\* Response::error_for_status: an error for a client or server error status
is_client_error(s) == 400 <= s /\ s <= 499
is_server_error(s) == 500 <= s /\ s <= 599
error_for_status(r) ==
  IF is_client_error(r.status) \/ is_server_error(r.status)
    THEN Result_Err(Some(r.status))
    ELSE Result_Ok(r)

\* Response::json::<Report>: a decode error carries no status
json_Report(r) == IF r.parses THEN Result_Ok(r.report) ELSE Result_Err(None)

\* client.get(..).query(..).send().and_then(error_for_status).and_then(json)
\* (and_then passes the first error through)
response_of(t) ==
  LET sent == send(t) IN
    IF ~sent.ok THEN sent
    ELSE LET checked == error_for_status(sent.value) IN
           IF ~checked.ok THEN checked ELSE json_Report(checked.value)

\* (a variant that clears the cell when no response came)
stored_for_clearing(response) ==
  IF response.ok THEN MaybeReport_Ok(response.value)
  ELSE IF IsSome(response.status) THEN MaybeReport_Err(response.status)
  ELSE MaybeReport_None

\* (a variant that forgets the status of an error)
stored_for_dropping_status(response) ==
  IF response.ok THEN MaybeReport_Ok(response.value)
                 ELSE MaybeReport_Err(None)

\* the value the loop body stores for a response
stored_for(response) ==
  IF response.ok THEN MaybeReport_Ok(response.value)
                 ELSE MaybeReport_Err(response.status)

\* (a variant that sleeps the normal interval whatever happened)
sleep_for_always_interval(response) == "interval"

\* the sleep the loop body takes for a response
sleep_for(response) ==
  IF response.ok THEN "interval" ELSE "backoff_interval"

\* ------------------------------------------------------ Metrics Formatter
\* f64 Display of an integral value: "1", "10", "6000"
f64_to_string(v) == ToString(v)

\* (a variant that puts the location label first)
effective_labels_location_first(opts, labels) ==
  IF IsSome(opts.location)
    THEN << << "location", Unwrap(opts.location) >> >> \o labels
    ELSE labels

\* export(): labels, then the location label when one is configured
effective_labels(opts, labels) ==
  IF IsSome(opts.location)
    THEN Append(labels, << "location", Unwrap(opts.location) >>)
    ELSE labels

RECURSIVE labels_text(_, _)
labels_text(ls, i) ==
  IF i > Len(ls) THEN ""
  ELSE (IF i > 1 THEN "," ELSE "")
       \o ls[i][1] \o "=\"" \o ls[i][2] \o "\""
       \o labels_text(ls, i + 1)

export(opts, name, value, labels) ==
  LET effective == effective_labels(opts, labels) IN
    name
    \o (IF effective # << >> THEN "{" \o labels_text(effective, 1) \o "}" ELSE "")
    \o " " \o f64_to_string(value) \o "\n"

\* (a variant that reports an absent volume as 0)
volume_lines_always(opts, name, volume, period) ==
  << export(opts, name, IF IsSome(volume) THEN Unwrap(volume) ELSE 0,
            << <<"period", period>>, <<"unit", "mm">> >>) >>

\* the lines of one optional volume
volume_lines(opts, name, volume, period) ==
  IF IsSome(volume)
    THEN << export(opts, name, Unwrap(volume),
                   << <<"period", period>>, <<"unit", "mm">> >>) >>
    ELSE << >>

condition_lines(opts, weather) ==
  [i \in 1..Len(weather) |->
     export(opts, "owm_condition", 1, << <<"kind", weather[i].description>> >>)]

\* (a variant that replaces the plain error line by the one with the status)
export_report_status_line_only(report, opts) ==
  CASE report.tag = "None" -> << >>
    [] report.tag = "Err" ->
         IF IsSome(report.code)
           THEN << export(opts, "owm_error", 1,
                          << <<"code", ToString(Unwrap(report.code))>> >>) >>
           ELSE << export(opts, "owm_error", 1, << >>) >>
    [] report.tag = "Ok" ->
         << export(opts, "owm_error", 0, << >>) >>

\* export_report(): the text is modelled as the sequence of its lines, each
\* line the string export() returns
export_report(report, opts) ==
  CASE report.tag = "None" -> << >>
    [] report.tag = "Err" ->
         << export(opts, "owm_error", 1, << >>) >>
         \o (IF IsSome(report.code)
               THEN << export(opts, "owm_error", 1,
                              << <<"code", ToString(Unwrap(report.code))>> >>) >>
               ELSE << >>)
    [] report.tag = "Ok" ->
         LET r == report.report
             u == opts.units
         IN << export(opts, "owm_error", 0, << >>),
               export(opts, "owm_temp", r.main.temp, << <<"unit", units_temp(u)>> >>),
               export(opts, "owm_temp_min", r.main.temp_min, << <<"unit", units_temp(u)>> >>),
               export(opts, "owm_temp_max", r.main.temp_max, << <<"unit", units_temp(u)>> >>),
               export(opts, "owm_feels_like", r.main.feels_like, << <<"unit", units_temp(u)>> >>),
               export(opts, "owm_humidity", r.main.humidity, << <<"unit", "percent">> >>),
               export(opts, "owm_pressure", r.main.pressure, << <<"unit", units_pressure(u)>> >>),
               export(opts, "owm_clouds_all", r.clouds.all, << <<"unit", "percent">> >>) >>
            \o volume_lines(opts, "owm_rain_volume", r.rain.volume_1h, "1h")
            \o volume_lines(opts, "owm_rain_volume", r.rain.volume_3h, "3h")
            \o volume_lines(opts, "owm_snow_volume", r.snow.volume_1h, "1h")
            \o volume_lines(opts, "owm_snow_volume", r.snow.volume_3h, "3h")
            \o << export(opts, "owm_wind_direction", r.wind.deg, << <<"unit", "degrees">> >>),
                  export(opts, "owm_wind_speed", r.wind.speed, << <<"unit", units_speed(u)>> >>) >>
            \o condition_lines(opts, r.weather)
            \o (IF IsSome(r.visibility)
                  THEN << export(opts, "owm_visiblity", Unwrap(r.visibility),
                                 << <<"unit", "meters">> >>) >>
                  ELSE << >>)

\* ------------------------------------------------------ Pass-through View
\* serde_json: an f32 keeps its fraction ("10.0"), an integer does not
json_f32(x) == ToString(x) \o ".0"
json_uint(x) == ToString(x)
json_str(x) == "\"" \o x \o "\""
json_opt_f32(o) == IF IsSome(o) THEN json_f32(Unwrap(o)) ELSE "null"
json_opt_uint(o) == IF IsSome(o) THEN json_uint(Unwrap(o)) ELSE "null"

json_condition(c) ==
  "{\"id\":" \o json_uint(c.id) \o ",\"main\":" \o json_str(c.main)
  \o ",\"description\":" \o json_str(c.description)
  \o ",\"icon\":" \o json_str(c.icon) \o "}"

RECURSIVE json_conditions(_, _)
json_conditions(w, i) ==
  IF i > Len(w) THEN ""
  ELSE (IF i > 1 THEN "," ELSE "") \o json_condition(w[i]) \o json_conditions(w, i + 1)

json_volumes(v) ==
  "{\"volume_1h\":" \o json_opt_f32(v.volume_1h)
  \o ",\"volume_3h\":" \o json_opt_f32(v.volume_3h) \o "}"

\* #[derive(Serialize)] of Report: every field, in declaration order
json_report(r) ==
  "{\"coord\":{\"lat\":" \o json_f32(r.coord.lat) \o ",\"lon\":" \o json_f32(r.coord.lon) \o "}"
  \o ",\"weather\":[" \o json_conditions(r.weather, 1) \o "]"
  \o ",\"main\":{\"temp\":" \o json_f32(r.main.temp)
  \o ",\"feels_like\":" \o json_f32(r.main.feels_like)
  \o ",\"temp_min\":" \o json_f32(r.main.temp_min)
  \o ",\"temp_max\":" \o json_f32(r.main.temp_max)
  \o ",\"pressure\":" \o json_f32(r.main.pressure)
  \o ",\"humidity\":" \o json_f32(r.main.humidity) \o "}"
  \o ",\"wind\":{\"speed\":" \o json_f32(r.wind.speed)
  \o ",\"deg\":" \o json_uint(r.wind.deg) \o "}"
  \o ",\"rain\":" \o json_volumes(r.rain)
  \o ",\"snow\":" \o json_volumes(r.snow)
  \o ",\"clouds\":{\"all\":" \o json_uint(r.clouds.all) \o "}"
  \o ",\"visibility\":" \o json_opt_uint(r.visibility) \o "}"

\* (a variant that leaves the status out of the error object)
r_json_without_status(report) ==
  CASE report.tag = "Ok" -> << json_report(report.report) >>
    [] report.tag = "None" -> << "null" >>
    [] report.tag = "Err" -> << "{\"error\":null}" >>

\* the /json closure: the body is one string, kept as a one-line sequence
r_json(report) ==
  CASE report.tag = "Ok" -> << json_report(report.report) >>
    [] report.tag = "None" -> << "null" >>
    [] report.tag = "Err" -> << "{\"error\":" \o json_opt_uint(report.code) \o "}" >>

\* the /metrics closure
r_metrics(report, opts) == export_report(report, opts)

\* ------------------------------------------------------------ the program
\* number of request handlers that can be running at the same time
NumHandlers == 2
Handlers == 1..NumHandlers
\* handler h is a call of the /json closure (odd h) or the /metrics closure
route_of(h) == IF h % 2 = 1 THEN "json" ELSE "metrics"

VARIABLES
  opts,        \* Options, fixed after startup
  cell,        \* the MaybeReport inside the RwLock
  readers,     \* handlers holding a read guard
  writer,      \* TRUE while the report thread holds the write guard
  poisoned,    \* the RwLock's poison flag
  pc,          \* report thread: "send", "try_write", "assign", "sleep", "panicked"
  response,    \* report thread: the Result of the current attempt
  sleeping,    \* report thread: the Options field its sleep takes, "" when awake
  requested,   \* the query of the last outbound request
  fetched,     \* what the last outbound request came back with
  outcomes,    \* history: the value each attempt's response calls for storing
  writes,      \* history: number of assignments to the cell
  hpc,         \* handler: "idle", "read", "render", "done"
  route,       \* handler: the route of its request
  tracked,     \* history: the handler whose request is followed, 0 for none
  started,     \* history: value of writes when the followed request began
  seen,        \* handler: the value it found when it acquired the guard
  reply        \* handler: its response

vars == << opts, cell, readers, writer, poisoned, pc, response, sleeping,
           requested, fetched, outcomes, writes,
           hpc, route, tracked, started, seen, reply >>

pollerVars == << pc, response, sleeping, requested, fetched, outcomes, writes >>
handlerVars == << hpc, route, tracked, started, seen, reply >>

NoTransport == [sent |-> FALSE, status |-> 0, parses |-> FALSE, report |-> ReportA]
NoReply == [ok |-> FALSE, status |-> 0, body |-> << >>]

\* the query vector the thread builds before its loop
query(o) ==
  << <<"lat", ToString(o.coords.lat)>>, <<"lon", ToString(o.coords.lon)>>,
     <<"appid", o.api_key>> >>
  \o (IF IsSome(api_param(o.units))
        THEN << <<"units", Unwrap(api_param(o.units))>> >>
        ELSE << >>)

\* main(): the lock is created holding MaybeReport::None, the thread started
Init ==
  /\ opts \in StartOptions
  /\ cell = MaybeReport_None
  /\ readers = {}
  /\ writer = FALSE
  /\ poisoned = FALSE
  /\ pc = "send"
  /\ response = Result_Err(None)
  /\ sleeping = ""
  /\ requested = << >>
  /\ fetched = NoTransport
  /\ outcomes = << >>
  /\ writes = 0
  /\ hpc = [h \in Handlers |-> "idle"]
  /\ route = [h \in Handlers |-> route_of(h)]
  /\ tracked = 0
  /\ started = 0
  /\ seen = [h \in Handlers |-> MaybeReport_None]
  /\ reply = [h \in Handlers |-> NoReply]

\* --------------------------------------------------------- report_thread
\* (a variant that does not look at the read guards)
try_write_ignoring_readers(rs, w, p) == ~w /\ ~p

\* RwLock::try_write: refused while any guard is out, or when poisoned
try_write_succeeds(rs, w, p) == rs = {} /\ ~w /\ ~p

\* whether a panic of the thread at try_write().unwrap() poisons the lock:
\* only a guard dropped during the panic does, and none is held there
panic_poisons(holdsGuard) == holdsGuard

\* the outbound request returns with t
Fetch(t) ==
  /\ pc = "send"
  /\ Len(outcomes) < MaxAttempts
  /\ requested' = query(opts)
  /\ fetched' = t
  /\ response' = response_of(t)
  /\ outcomes' = Append(outcomes, stored_for(response_of(t)))
  /\ pc' = "try_write"
  /\ UNCHANGED << opts, cell, readers, writer, poisoned, sleeping, writes >>
  /\ UNCHANGED handlerVars

\* report_lock.try_write().unwrap(), on either branch of the match
TryWrite ==
  /\ pc = "try_write"
  /\ IF try_write_succeeds(readers, writer, poisoned)
       THEN /\ writer' = TRUE
            /\ pc' = "assign"
            /\ UNCHANGED poisoned
       ELSE /\ pc' = "panicked"
            /\ poisoned' = (poisoned \/ panic_poisons(writer))
            /\ UNCHANGED writer
  /\ UNCHANGED << opts, cell, readers, response, sleeping, requested, fetched,
                  outcomes, writes >>
  /\ UNCHANGED handlerVars

\* (a variant that fills the cell once and keeps that first value afterwards)
AssignFirstOnly ==
  /\ pc = "assign"
  /\ cell' = IF cell.tag = "None" THEN stored_for(response) ELSE cell
  /\ writes' = writes + 1
  /\ writer' = FALSE
  /\ sleeping' = sleep_for(response)
  /\ pc' = "sleep"
  /\ UNCHANGED << opts, readers, poisoned, response, requested, fetched, outcomes >>
  /\ UNCHANGED handlerVars

\* (a variant that stores reports only and leaves the cell alone on an error)
AssignOnlyReports ==
  /\ pc = "assign"
  /\ cell' = IF response.ok THEN stored_for(response) ELSE cell
  /\ writes' = writes + 1
  /\ writer' = FALSE
  /\ sleeping' = sleep_for(response)
  /\ pc' = "sleep"
  /\ UNCHANGED << opts, readers, poisoned, response, requested, fetched, outcomes >>
  /\ UNCHANGED handlerVars

\* (a variant that keeps the write guard over the sleep and the next fetch)
AssignKeepingGuard ==
  /\ pc = "assign"
  /\ cell' = stored_for(response)
  /\ writes' = writes + 1
  /\ writer' = TRUE
  /\ sleeping' = sleep_for(response)
  /\ pc' = "sleep"
  /\ UNCHANGED << opts, readers, poisoned, response, requested, fetched, outcomes >>
  /\ UNCHANGED handlerVars

\* *guard = MaybeReport::..; the guard is dropped, then thread::sleep begins
Assign ==
  /\ pc = "assign"
  /\ cell' = stored_for(response)
  /\ writes' = writes + 1
  /\ writer' = FALSE
  /\ sleeping' = sleep_for(response)
  /\ pc' = "sleep"
  /\ UNCHANGED << opts, readers, poisoned, response, requested, fetched, outcomes >>
  /\ UNCHANGED handlerVars

\* thread::sleep returns; the loop starts over
Wake ==
  /\ pc = "sleep"
  /\ sleeping' = ""
  /\ pc' = "send"
  /\ UNCHANGED << opts, cell, readers, writer, poisoned, response, requested,
                  fetched, outcomes, writes >>
  /\ UNCHANGED handlerVars

\* ---------------------------------------------------------- the handlers
\* (a variant that turns a stored error into an error response)
serve_failing_on_err(rt, m, o) ==
  [ok |-> m.tag # "Err", status |-> IF m.tag = "Err" THEN 500 ELSE 200,
   body |-> IF rt = "json" THEN r_json(m) ELSE r_metrics(m, o)]

\* (a variant that serves the value the lock was created with)
serve_initial_value(rt, m, o) ==
  [ok |-> TRUE, status |-> 200,
   body |-> IF rt = "json" THEN r_json(MaybeReport_None)
                           ELSE r_metrics(MaybeReport_None, o)]

\* what a route's closure returns for the value behind the guard
serve(rt, m, o) ==
  [ok |-> TRUE, status |-> 200,
   body |-> IF rt = "json" THEN r_json(m) ELSE r_metrics(m, o)]

\* a GET arrives and its route's closure is called; of the handlers of a
\* route the first free one takes the request. Any request can be the one
\* that is followed from its start (follow), one at a time.
Request(h, follow) ==
  /\ hpc[h] = "idle"
  /\ \A g \in Handlers : (g < h /\ route[g] = route[h]) => hpc[g] # "idle"
  /\ hpc' = [hpc EXCEPT ![h] = "read"]
  /\ IF follow
       THEN tracked = 0 /\ tracked' = h /\ started' = writes
       ELSE UNCHANGED << tracked, started >>
  /\ UNCHANGED << opts, cell, readers, writer, poisoned, route, seen, reply >>
  /\ UNCHANGED pollerVars

\* lock.read().unwrap(): waits while the write guard is out; a poisoned lock
\* makes unwrap panic and the request ends without a response
Read(h) ==
  /\ hpc[h] = "read"
  /\ ~writer
  /\ IF poisoned
       THEN /\ hpc' = [hpc EXCEPT ![h] = "done"]
            /\ reply' = [reply EXCEPT ![h] = NoReply]
            /\ UNCHANGED << readers, seen >>
       ELSE /\ hpc' = [hpc EXCEPT ![h] = "render"]
            /\ readers' = readers \cup {h}
            /\ seen' = [seen EXCEPT ![h] = cell]
            /\ UNCHANGED reply
  /\ UNCHANGED << opts, cell, writer, poisoned, route, tracked, started >>
  /\ UNCHANGED pollerVars

\* (a variant that takes the value out of the cell as it answers)
ReplyTakingValue(h) ==
  /\ hpc[h] = "render"
  /\ reply' = [reply EXCEPT ![h] = serve(route[h], cell, opts)]
  /\ cell' = MaybeReport_None
  /\ readers' = readers \ {h}
  /\ hpc' = [hpc EXCEPT ![h] = "done"]
  /\ UNCHANGED << opts, writer, poisoned, route, tracked, started, seen >>
  /\ UNCHANGED pollerVars

\* the body is built from the value behind the guard; the guard is dropped
Reply(h) ==
  /\ hpc[h] = "render"
  /\ reply' = [reply EXCEPT ![h] = serve(route[h], cell, opts)]
  /\ readers' = readers \ {h}
  /\ hpc' = [hpc EXCEPT ![h] = "done"]
  /\ UNCHANGED << opts, cell, writer, poisoned, route, tracked, started, seen >>
  /\ UNCHANGED pollerVars

\* the response has been sent; the handler is free for the next request
Close(h) ==
  /\ hpc[h] = "done"
  /\ hpc' = [hpc EXCEPT ![h] = "idle"]
  /\ IF tracked = h
       THEN tracked' = 0 /\ started' = 0
       ELSE UNCHANGED << tracked, started >>
  /\ seen' = [seen EXCEPT ![h] = MaybeReport_None]
  /\ reply' = [reply EXCEPT ![h] = NoReply]
  /\ UNCHANGED << opts, cell, readers, writer, poisoned, route >>
  /\ UNCHANGED pollerVars

Next ==
  \/ \E t \in Transports : Fetch(t)
  \/ TryWrite
  \/ Assign
  \/ Wake
  \/ \E h \in Handlers, follow \in BOOLEAN : Request(h, follow)
  \/ \E h \in Handlers : Read(h)
  \/ \E h \in Handlers : Reply(h)
  \/ \E h \in Handlers : Close(h)

Spec == Init /\ [][Next]_vars

\* the answers the fair specification lets the provider give
LiveTransports ==
  {t \in Transports : t.sent /\ ((t.status = 200 /\ t.parses) \/ t.status = 503)}

NextLive ==
  \/ \E t \in LiveTransports : Fetch(t)
  \/ TryWrite
  \/ Assign
  \/ Wake
  \/ \E h \in Handlers : Request(h, FALSE)
  \/ \E h \in Handlers : Read(h)
  \/ \E h \in Handlers : Reply(h)
  \/ \E h \in Handlers : Close(h)

\* the threads keep running: a handler that can take or drop its guard does,
\* and so does the report thread at the lock; nothing makes a fetch return
FairSpec ==
  /\ Init /\ [][NextLive]_vars
  /\ WF_vars(TryWrite)
  /\ WF_vars(Assign)
  /\ \A h \in Handlers : WF_vars(Read(h)) /\ WF_vars(Reply(h))

\* ------------------------------------------- the formatter's inputs, wide
\* Reports that differ in which optional volumes are present (each volume
\* with a value of its own), in the number of conditions and in visibility
VolumePresence ==
  {{}, {1}, {2}, {3}, {4}, {1, 2, 3, 4}}

volume_of(present, i) == IF i \in present THEN Some(i + 1) ELSE None

Shapes ==
  {[weather |-> << >>, visibility |-> None],
   [weather |-> ReportA.weather, visibility |-> Some(6000)],
   [weather |-> ReportB.weather, visibility |-> None]}

FormatReports ==
  {[ReportA EXCEPT
      !.rain = [volume_1h |-> volume_of(p, 1), volume_3h |-> volume_of(p, 2)],
      !.snow = [volume_1h |-> volume_of(p, 3), volume_3h |-> volume_of(p, 4)],
      !.weather = sh.weather,
      !.visibility = sh.visibility] : p \in VolumePresence, sh \in Shapes}

FormatTransports ==
  {[sent |-> FALSE, status |-> 0, parses |-> FALSE, report |-> ReportA]}
  \cup [sent : {TRUE}, status : {404, 503}, parses : {FALSE}, report : {ReportA}]
  \cup [sent : {TRUE}, status : {200}, parses : {TRUE}, report : FormatReports]

Routes == {"json", "metrics"}

\* the mixes of routes among the handlers, /json calls numbered first
RouteMixes ==
  {f \in [Handlers -> Routes] :
     \A g, h \in Handlers : (g < h /\ f[g] = "metrics") => f[h] = "metrics"}

\* The server under any configuration, with the report thread either not yet
\* through its first attempt or asleep after it; any mix of routes among the
\* requests in progress.
FormatInit ==
  /\ opts \in OptionsValues
  /\ \/ /\ fetched = NoTransport
        /\ writes = 0
        /\ cell = MaybeReport_None
        /\ pc = "send"
        /\ response = Result_Err(None)
        /\ sleeping = ""
        /\ requested = << >>
        /\ outcomes = << >>
     \/ /\ fetched \in FormatTransports
        /\ writes = 1
        /\ cell = stored_for(response_of(fetched))
        /\ pc = "sleep"
        /\ response = response_of(fetched)
        /\ sleeping = sleep_for(response_of(fetched))
        /\ requested = query(opts)
        /\ outcomes = << stored_for(response_of(fetched)) >>
  /\ readers = {}
  /\ writer = FALSE
  /\ poisoned = FALSE
  /\ hpc = [h \in Handlers |-> "idle"]
  /\ route \in RouteMixes
  /\ tracked = 0
  /\ started = 0
  /\ seen = [h \in Handlers |-> MaybeReport_None]
  /\ reply = [h \in Handlers |-> NoReply]

\* the requests served while the report thread sleeps (or waits for its
\* first response)
NextFormat ==
  \/ \E h \in Handlers : Request(h, FALSE)
  \/ \E h \in Handlers : Read(h)
  \/ \E h \in Handlers : Reply(h)
  \/ \E h \in Handlers : Close(h)

FormatSpec == FormatInit /\ [][NextFormat]_vars

\* The report thread alone, under any configuration (no request arrives)
PollInit ==
  /\ opts \in OptionsValues
  /\ cell = MaybeReport_None
  /\ readers = {}
  /\ writer = FALSE
  /\ poisoned = FALSE
  /\ pc = "send"
  /\ response = Result_Err(None)
  /\ sleeping = ""
  /\ requested = << >>
  /\ fetched = NoTransport
  /\ outcomes = << >>
  /\ writes = 0
  /\ hpc = [h \in Handlers |-> "idle"]
  /\ route = [h \in Handlers |-> route_of(h)]
  /\ tracked = 0
  /\ started = 0
  /\ seen = [h \in Handlers |-> MaybeReport_None]
  /\ reply = [h \in Handlers |-> NoReply]

NextPoll ==
  \/ \E t \in Transports : Fetch(t)
  \/ TryWrite
  \/ Assign
  \/ Wake

PollSpec == PollInit /\ [][NextPoll]_vars

\* ------------------------------------------------------------- properties
\* the body a route shows for a stored value
Shown(h, m) == IF route[h] = "json" THEN r_json(m) ELSE r_metrics(m, opts)

\* text: prefix, suffix, substring, number of occurrences
StartsWith(s, p) == Len(s) >= Len(p) /\ SubSeq(s, 1, Len(p)) = p
EndsWith(s, p) == Len(s) >= Len(p) /\ SubSeq(s, Len(s) - Len(p) + 1, Len(s)) = p
Occurrences(s, p) ==
  Cardinality({i \in 1..(Len(s) - Len(p) + 1) : SubSeq(s, i, i + Len(p) - 1) = p})
Contains(s, p) == \E i \in 1..(Len(s) - Len(p) + 1) : SubSeq(s, i, i + Len(p) - 1) = p

\* the positions of a body's lines of one metric name
LinesNamed(body, name) ==
  {i \in 1..Len(body) :
     StartsWith(body[i], name \o "{") \/ StartsWith(body[i], name \o " ")}

\* the provider's answer, classified as the documentation does (2xx or not)
Is2xx(t) == 200 <= t.status /\ t.status <= 299
Succeeded2xx(t) == t.sent /\ Is2xx(t) /\ t.parses
\* ... and as error statuses (4xx, 5xx) against all others
IsErrorStatus(t) == 400 <= t.status /\ t.status <= 599
SucceededNoError(t) == t.sent /\ ~IsErrorStatus(t) /\ t.parses

\* C1: the cell holds MaybeReport::None until the first assignment, afterwards
\* the outcome of the last attempt that assigned; in every sleep after attempt
\* n that is the outcome of attempt n, whatever the handlers are doing.
CellReflectsLastCompletedAttempt ==
  /\ writes = 0 => cell = MaybeReport_None
  /\ writes > 0 => cell = outcomes[writes]
  /\ pc = "sleep" => /\ writes = Len(outcomes)
                     /\ cell = outcomes[Len(outcomes)]

C1_Witness ==
  /\ pc = "sleep"
  /\ writes = 2
  /\ outcomes[1] # outcomes[2]
  /\ cell = outcomes[2]
  /\ readers # {}

\* C2 (as claimed): whenever the report thread takes its try_write step while
\* handlers hold read guards, it gets the guard and goes on to assign.
ReadersNeverBlockWriter ==
  [][(pc = "try_write" /\ readers # {} /\ pc' # pc) => pc' = "assign"]_vars

\* C3 (as claimed): no reachable state has the report thread stopped.
PollerNeverStops == pc # "panicked"

\* C4: the lock is never poisoned and every request that has been answered
\* got status 200 with the body of the value it found behind its guard,
\* also after the report thread has stored errors or has panicked.
ServingAlwaysSucceeds ==
  /\ ~poisoned
  /\ \A h \in Handlers :
       hpc[h] = "done" =>
         /\ reply[h].ok
         /\ reply[h].status = 200
         /\ reply[h].body = Shown(h, seen[h])

C4_Witness ==
  /\ pc = "panicked"
  /\ cell.tag = "Err"
  /\ \E h \in Handlers :
       /\ hpc[h] = "done"
       /\ readers = {}
       /\ tracked = h /\ started = writes
       /\ reply[h].status = 200
       /\ reply[h].body = Shown(h, cell)

OneWritePerFetch ==
  /\ writes <= Len(outcomes)
  /\ Len(outcomes) <= writes + 1
  /\ pc \in {"send", "sleep", "panicked"} => writes = Len(outcomes)

\* C8: the report thread holds no guard while it fetches or sleeps, and every
\* request whose closure has been called is answered, with the value of the
\* cell, even when no fetch returns any more.
RequestsNeverWaitForPoller ==
  /\ [](pc \in {"send", "sleep"} => ~writer)
  /\ \A h \in Handlers : (hpc[h] = "read") ~> (hpc[h] = "done" /\ reply[h].ok)

C8_Witness ==
  /\ pc = "send"
  /\ writes >= 1
  /\ \E h \in Handlers :
       /\ hpc[h] = "done"
       /\ seen[h] = cell
       /\ reply[h].ok
       /\ reply[h].body = Shown(h, outcomes[writes])

\* C9: the write guard and a read guard are never out together, so the value
\* a handler found when it took its guard is the value it renders from;
\* several handlers can hold read guards together.
NoWriteWhileReading ==
  /\ ~(writer /\ readers # {})
  /\ \A h \in Handlers :
       /\ hpc[h] = "render" <=> h \in readers
       /\ hpc[h] = "render" => seen[h] = cell

C9_Witness ==
  /\ Cardinality(readers) >= 2
  /\ pc = "try_write"
  /\ cell # outcomes[Len(outcomes)]
  /\ \A h \in readers : seen[h] = cell

\* C10: a request that began after assignment n answers with the outcome of
\* attempt n or of a later attempt, never with MaybeReport::None.
ReadNotOlderThanLastWrite ==
  \A h \in Handlers :
    (hpc[h] = "done" /\ tracked = h /\ started >= 1) =>
      /\ \E k \in started..Len(outcomes) : reply[h].body = Shown(h, outcomes[k])
      /\ reply[h].body # Shown(h, MaybeReport_None)

C10_Witness ==
  \E h \in Handlers :
    /\ hpc[h] = "done"
    /\ tracked = h /\ started = 2
    /\ outcomes[1] # outcomes[2]
    /\ reply[h].body = Shown(h, outcomes[2])
    /\ reply[h].body # Shown(h, outcomes[1])

\* a body that shows a failure and nothing else: the /json object has the one
\* field "error", every /metrics line is an owm_error line of value 1
ShowsOnlyError(rt, body) ==
  IF rt = "json"
    THEN /\ Len(body) = 1
         /\ StartsWith(body[1], "{\"error\":")
         /\ Occurrences(body[1], "\":") = 1
    ELSE /\ Len(body) \in {1, 2}
         /\ \A i \in 1..Len(body) :
              StartsWith(body[i], "owm_error") /\ EndsWith(body[i], " 1\n")

\* a body that shows a report and no failure
ShowsNoError(rt, body) ==
  IF rt = "json"
    THEN /\ Len(body) = 1
         /\ StartsWith(body[1], "{\"coord\":")
         /\ ~Contains(body[1], "error")
    ELSE /\ LinesNamed(body, "owm_error") = {1}
         /\ EndsWith(body[1], " 0\n")
         /\ ~Contains(body[1], "code=")

\* C11: an assignment replaces the cell's value whole. When the last two
\* assignments were a report and then a failure, the cell is that failure and
\* the followed request that read it answers with the error only, sharing no line with
\* the rendering of the earlier report; when they were a failure and then a
\* report, the answer carries no trace of the failure.
WriteLeavesNoHistory ==
  writes >= 2 =>
    /\ cell = outcomes[writes]
    /\ \A h \in Handlers :
         (/\ hpc[h] = "done"
          /\ tracked = h
          /\ seen[h] = outcomes[writes]
          /\ outcomes[writes - 1].tag # outcomes[writes].tag) =>
           LET before == Shown(h, outcomes[writes - 1])
               earlier == {before[j] : j \in 1..Len(before)}
           IN /\ \A i \in 1..Len(reply[h].body) : reply[h].body[i] \notin earlier
              /\ IF outcomes[writes].tag = "Err"
                   THEN ShowsOnlyError(route[h], reply[h].body)
                   ELSE ShowsNoError(route[h], reply[h].body)

C11_Witness ==
  /\ writes = 2
  /\ outcomes[1].tag = "Ok"
  /\ cell = MaybeReport_Err(Some(503))
  /\ \A h \in Handlers : hpc[h] = "done" /\ seen[h] = cell
  /\ \E h \in Handlers : reply[h].body = << "{\"error\":503}" >>
  /\ \E h \in Handlers :
       tracked = h /\ Len(reply[h].body) = 2 /\ route[h] = "metrics"

\* C12: a /metrics answer is empty for MaybeReport::None; for an Err it is the
\* plain owm_error line of value 1 without a code label, followed, exactly
\* when the status is present, by one more owm_error line of value 1 whose
\* first label is code="<status>"; no line of another name is in it.
MetricsOfNoneAndErr ==
  \A h \in Handlers :
    (hpc[h] = "done" /\ route[h] = "metrics") =>
      LET body == reply[h].body IN
        /\ cell.tag = "None" => body = << >>
        /\ cell.tag = "Err" =>
             /\ Len(body) = (IF IsSome(cell.code) THEN 2 ELSE 1)
             /\ LinesNamed(body, "owm_error") = 1..Len(body)
             /\ EndsWith(body[1], " 1\n")
             /\ ~Contains(body[1], "code=")
             /\ ~IsSome(opts.location) => body[1] = "owm_error 1\n"
             /\ IsSome(cell.code) =>
                  /\ StartsWith(body[2], "owm_error{code=\""
                                           \o ToString(Unwrap(cell.code)) \o "\"")
                  /\ EndsWith(body[2], " 1\n")
                  /\ Occurrences(body[2], "code=") = 1

C12_Witness ==
  /\ cell = MaybeReport_Err(Some(503))
  /\ opts.location = None
  /\ \A h \in Handlers :
       /\ hpc[h] = "done"
       /\ route[h] = "metrics"
       /\ reply[h].body = << "owm_error 1\n", "owm_error{code=\"503\"} 1\n" >>

\* the number of a body's lines of one metric name that carry a label
Tagged(body, name, label) ==
  Cardinality({i \in LinesNamed(body, name) : Contains(body[i], label)})

\* exactly one line of that name, and it shows that value
OneLine(body, name, value) ==
  /\ Cardinality(LinesNamed(body, name)) = 1
  /\ \A i \in LinesNamed(body, name) :
       EndsWith(body[i], " " \o ToString(value) \o "\n")

\* one line of that name and period when the volume is present, else none
VolumeLine(body, name, period, volume) ==
  /\ Tagged(body, name, "period=\"" \o period \o "\"") = (IF IsSome(volume) THEN 1 ELSE 0)
  /\ \A i \in LinesNamed(body, name) :
       Contains(body[i], "period=\"" \o period \o "\"") =>
         EndsWith(body[i], " " \o ToString(Unwrap(volume)) \o "\n")

PresentVolumes(r) ==
  Cardinality({v \in {<<1, r.rain.volume_1h>>, <<2, r.rain.volume_3h>>,
                      <<3, r.snow.volume_1h>>, <<4, r.snow.volume_3h>>} : IsSome(v[2])})

\* C13: a /metrics answer for MaybeReport::Ok starts with the one owm_error
\* line, of value 0; has exactly one line, with the field's value, for each of
\* the nine scalar fields; one volume line per present rain/snow volume of
\* each period and none for an absent one; as many owm_condition lines as
\* conditions, each of value 1 and each description on as many lines as
\* conditions have it; a visibility line exactly when visibility is present;
\* and 10 + volumes + conditions + visibility lines in all.
MetricsOfOk ==
  \A h \in Handlers :
    (hpc[h] = "done" /\ route[h] = "metrics" /\ cell.tag = "Ok") =>
      LET body == reply[h].body
          r == cell.report
      IN /\ LinesNamed(body, "owm_error") = {1}
         /\ EndsWith(body[1], " 0\n")
         /\ OneLine(body, "owm_temp", r.main.temp)
         /\ OneLine(body, "owm_temp_min", r.main.temp_min)
         /\ OneLine(body, "owm_temp_max", r.main.temp_max)
         /\ OneLine(body, "owm_feels_like", r.main.feels_like)
         /\ OneLine(body, "owm_humidity", r.main.humidity)
         /\ OneLine(body, "owm_pressure", r.main.pressure)
         /\ OneLine(body, "owm_clouds_all", r.clouds.all)
         /\ OneLine(body, "owm_wind_direction", r.wind.deg)
         /\ OneLine(body, "owm_wind_speed", r.wind.speed)
         /\ VolumeLine(body, "owm_rain_volume", "1h", r.rain.volume_1h)
         /\ VolumeLine(body, "owm_rain_volume", "3h", r.rain.volume_3h)
         /\ VolumeLine(body, "owm_snow_volume", "1h", r.snow.volume_1h)
         /\ VolumeLine(body, "owm_snow_volume", "3h", r.snow.volume_3h)
         /\ Cardinality(LinesNamed(body, "owm_condition")) = Len(r.weather)
         /\ \A i \in LinesNamed(body, "owm_condition") : EndsWith(body[i], " 1\n")
         /\ \A k \in 1..Len(r.weather) :
              Tagged(body, "owm_condition",
                     "kind=\"" \o r.weather[k].description \o "\"")
                = Cardinality({j \in 1..Len(r.weather) :
                                 r.weather[j].description = r.weather[k].description})
         /\ IF IsSome(r.visibility)
              THEN OneLine(body, "owm_visiblity", Unwrap(r.visibility))
              ELSE LinesNamed(body, "owm_visiblity") = {}
         /\ Len(body) = 10 + PresentVolumes(r) + Len(r.weather)
                           + (IF IsSome(r.visibility) THEN 1 ELSE 0)

C13_Witness ==
  /\ cell.tag = "Ok"
  /\ PresentVolumes(cell.report) = 4
  /\ Len(cell.report.weather) = 2
  /\ \E h \in Handlers :
       /\ hpc[h] = "done"
       /\ route[h] = "metrics"
       /\ Len(reply[h].body) = 16
       /\ Tagged(reply[h].body, "owm_condition", "kind=\"mist\"") = 1
       /\ Tagged(reply[h].body, "owm_snow_volume", "period=\"3h\"") = 1

\* the text of the location label
LocationLabel == "location=\"" \o Unwrap(opts.location) \o "\""

\* a line of a metric that has labels of its own
HasOwnLabels(line) ==
  ~(StartsWith(line, "owm_error ") \/ StartsWith(line, "owm_error{location="))

\* C14: with a location configured every /metrics line, of an Err and of an Ok
\* alike, has one label block that ends with the location label, which occurs
\* once and follows the line's own labels (period before unit on a volume
\* line); with none configured no line mentions a location, and a line
\* without labels has no label block.
LocationLabelLast ==
  \A h \in Handlers :
    (hpc[h] = "done" /\ route[h] = "metrics") =>
      \A i \in 1..Len(reply[h].body) :
        LET line == reply[h].body[i] IN
          /\ Occurrences(line, "{") <= 1
          /\ Occurrences(line, "{") = Occurrences(line, "}")
          /\ IF IsSome(opts.location)
               THEN /\ Occurrences(line, "location=") = 1
                    /\ Contains(line, LocationLabel \o "} ")
                    /\ IF HasOwnLabels(line)
                         THEN Contains(line, "\"," \o LocationLabel)
                         ELSE Contains(line, "{" \o LocationLabel)
               ELSE /\ ~Contains(line, "location")
                    /\ HasOwnLabels(line) <=> Contains(line, "{")
          /\ (StartsWith(line, "owm_rain_volume") \/ StartsWith(line, "owm_snow_volume")) =>
               /\ Contains(line, "{period=\"")
               /\ Contains(line, "h\",unit=\"mm\"")

C14_Witness ==
  /\ opts.location = Some("home")
  /\ cell.tag = "Ok"
  /\ \E h \in Handlers :
       /\ hpc[h] = "done"
       /\ route[h] = "metrics"
       /\ reply[h].body[1] = "owm_error{location=\"home\"} 0\n"
       /\ \E i \in 1..Len(reply[h].body) :
            reply[h].body[i]
              = "owm_rain_volume{period=\"1h\",unit=\"mm\",location=\"home\"} 2\n"

\* the documented table of the unit systems
UnitsTable ==
  [Kelvin |-> [param |-> None, temp |-> "k", speed |-> "m/s", pressure |-> "hPa"],
   Metric |-> [param |-> Some("metric"), temp |-> "c", speed |-> "m/s", pressure |-> "hPa"],
   Imperial |-> [param |-> Some("imperial"), temp |-> "f", speed |-> "mph", pressure |-> "hPa"]]

\* the values a query carries for a key
ParamValues(q, key) == {q[i][2] : i \in {j \in 1..Len(q) : q[j][1] = key}}
ParamCount(q, key) == Cardinality({j \in 1..Len(q) : q[j][1] = key})

UnitLabel(u) == "unit=\"" \o u \o "\""

\* C15: every outbound request carries the units parameter of the table for
\* the configured unit system (none for Kelvin, at most one otherwise) next to
\* lat, lon and appid; the unit labels resolve as the table says, also on the
\* rendered lines of a stored report; and neither the configuration nor the
\* query changes from one cycle to the next.
UnitsResolveAsTabled ==
  /\ [](LET row == UnitsTable[opts.units] IN
          /\ api_param(opts.units) = row.param
          /\ units_temp(opts.units) = row.temp
          /\ units_speed(opts.units) = row.speed
          /\ units_pressure(opts.units) = row.pressure
          /\ requested # << >> =>
               /\ ParamCount(requested, "units") = (IF opts.units = "Kelvin" THEN 0 ELSE 1)
               /\ ParamValues(requested, "units")
                    = (IF IsSome(row.param) THEN {Unwrap(row.param)} ELSE {})
               /\ ParamCount(requested, "lat") = 1
               /\ ParamCount(requested, "lon") = 1
               /\ ParamValues(requested, "appid") = {opts.api_key}
               /\ Len(requested) = 3 + ParamCount(requested, "units")
          /\ cell.tag = "Ok" =>
               LET body == export_report(cell, opts) IN
                 /\ Tagged(body, "owm_temp", UnitLabel(row.temp)) = 1
                 /\ Tagged(body, "owm_temp_min", UnitLabel(row.temp)) = 1
                 /\ Tagged(body, "owm_temp_max", UnitLabel(row.temp)) = 1
                 /\ Tagged(body, "owm_feels_like", UnitLabel(row.temp)) = 1
                 /\ Tagged(body, "owm_wind_speed", UnitLabel(row.speed)) = 1
                 /\ Tagged(body, "owm_pressure", UnitLabel(row.pressure)) = 1)
  /\ [][/\ opts' = opts
        /\ requested # << >> => requested' = requested]_vars

C15_Witness ==
  /\ opts.units = "Kelvin"
  /\ writes = 2
  /\ pc = "sleep"
  /\ outcomes[1].tag = "Err"
  /\ requested = << <<"lat", "51">>, <<"lon", "0">>, <<"appid", "key">> >>
  /\ cell.tag = "Ok"

\* ReportB as the JSON document its fields make, values as stored
ReportB_json ==
  "{\"coord\":{\"lat\":51.0,\"lon\":0.0},"
  \o "\"weather\":[{\"id\":500,\"main\":\"Rain\",\"description\":\"light rain\",\"icon\":\"10d\"},"
  \o "{\"id\":701,\"main\":\"Mist\",\"description\":\"mist\",\"icon\":\"50d\"}],"
  \o "\"main\":{\"temp\":7.0,\"feels_like\":5.0,\"temp_min\":6.0,\"temp_max\":8.0,"
  \o "\"pressure\":1001.0,\"humidity\":93.0},"
  \o "\"wind\":{\"speed\":5.0,\"deg\":270},"
  \o "\"rain\":{\"volume_1h\":2.0,\"volume_3h\":null},"
  \o "\"snow\":{\"volume_1h\":null,\"volume_3h\":null},"
  \o "\"clouds\":{\"all\":100},\"visibility\":6000}"

\* the /json document of a stored value, written out
ViewOf(m) ==
  CASE m.tag = "None" -> "null"
    [] m.tag = "Err" /\ ~IsSome(m.code) -> "{\"error\":null}"
    [] m.tag = "Err" /\ IsSome(m.code) -> "{\"error\":" \o ToString(Unwrap(m.code)) \o "}"
    [] m.tag = "Ok" /\ m.report = ReportB -> ReportB_json

\* C16: a request that began after the last assignment, with none since,
\* finds exactly the assigned value behind its guard (MaybeReport::None when
\* nothing was assigned yet); and every /json answer is the document of the
\* value found: the report's own fields and values, {"error": status or null},
\* or null, the same under every configuration of units and location.
WriteReadRoundTrip ==
  \A h \in Handlers :
    /\ (hpc[h] \in {"render", "done"} /\ tracked = h /\ started = writes) =>
         /\ seen[h] = cell
         /\ seen[h] = (IF writes = 0 THEN MaybeReport_None ELSE outcomes[writes])
    /\ (hpc[h] = "done" /\ route[h] = "json") =>
         reply[h].body = << ViewOf(seen[h]) >>
    /\ (hpc[h] = "done" /\ route[h] = "json" /\ tracked = h /\ started = writes) =>
         \A o \in OptionsValues : serve("json", seen[h], o).body = reply[h].body

C16_Witness ==
  /\ writes = 2
  /\ outcomes[1] = MaybeReport_Err(Some(503))
  /\ cell = MaybeReport_Ok(ReportB)
  /\ \E h \in Handlers :
       /\ hpc[h] = "done"
       /\ route[h] = "json"
       /\ tracked = h /\ started = 2
       /\ seen[h] = cell
       /\ reply[h].body = << ReportB_json >>

\* C17: a step of a request handler changes neither the cell nor the
\* configuration nor anything of the report thread; and with the cell not
\* assigned in between, the answers of one route are byte for byte the same:
\* any two that are out together, and an answer given now against one given
\* earlier.
FormattingIsPure ==
  /\ [][hpc' # hpc =>
          UNCHANGED << opts, cell, writer, poisoned, pc, response, sleeping,
                       requested, fetched, outcomes, writes >>]_vars
  /\ [](\A g, h \in Handlers :
          (hpc[g] = "done" /\ hpc[h] = "done" /\ route[g] = route[h]) =>
            reply[g].body = reply[h].body)
  /\ [][\A g, h \in Handlers :
          (/\ hpc[g] = "done" /\ hpc'[g] = "done"
           /\ hpc[h] = "render" /\ hpc'[h] = "done"
           /\ route[g] = route[h]) =>
            reply'[h].body = reply[g].body]_vars

C17_Witness ==
  /\ cell.tag = "Ok"
  /\ \E g, h \in Handlers :
       /\ g # h
       /\ route[g] = "metrics" /\ route[h] = "metrics"
       /\ hpc[g] = "done" /\ hpc[h] = "done"
       /\ Len(reply[g].body) >= 10
       /\ reply[g].body = reply[h].body

\* C18: the report thread never stores MaybeReport::None: once the cell has
\* been assigned it holds an Ok or an Err, whatever the cycles that followed
\* and also after the thread has stopped; a request that began after an
\* assignment never answers with the empty text or with null.
NoneOnlyInitially ==
  /\ \A k \in 1..Len(outcomes) : outcomes[k].tag \in {"Ok", "Err"}
  /\ writes >= 1 =>
       cell.tag \in {"Ok", "Err"}
  /\ \A h \in Handlers :
       (hpc[h] = "done" /\ tracked = h /\ started >= 1) =>
         /\ seen[h].tag # "None"
         /\ reply[h].body # << >>
         /\ reply[h].body # << "null" >>
         /\ Len(reply[h].body) >= 1

C18_Witness ==
  /\ pc = "panicked"
  /\ writes = 1
  /\ Len(outcomes) = 2
  /\ cell = MaybeReport_Err(None)
  /\ \A h \in Handlers : hpc[h] = "done"
  /\ \E h \in Handlers :
       /\ tracked = h /\ started = 1
       /\ route[h] = "metrics"
       /\ Len(reply[h].body) = 1

====
